---- MODULE Spec2Model ----
(***************************************************************************)
(* Model of the server resource manager (getResourcePath, getHash,         *)
(* getProductionStyles), of the plugin hook dispatch documented in the     *)
(* Plugins API, and of the client bootstrap routine (init).                *)
(*                                                                         *)
(* Text is modelled as a sequence of fragments; concatenation is \o.  A    *)
(* dot is always a fragment of its own, so that the filename pattern       *)
(* /\.([^.]+)\.js$/ can be evaluated on the fragments.                     *)
(***************************************************************************)
EXTENDS Integers, Sequences, FiniteSets, TLC

VARIABLES
  env,            \* process.env, fixed for the life of the process
  PROJECT_PATH,   \* module-level `let PROJECT_PATH`
  pathCache,      \* memoize cache of getResourcePath
  hashCache,      \* memoize cache of getHash
  stylesCache,    \* memoize cache of getProductionStyles
  last,           \* the last resource-manager call and what it did
  ncalls,         \* number of resource-manager calls made
  registry,       \* the registered plugin definitions, in registration order
  dispatched,     \* the last dispatch: the lifecycle point and the callbacks invoked
  platform,       \* isWeb, isExpo, isDevelopment
  moduleOptions,  \* MODULE.options, the global module configuration
  channel,        \* globalThis.__startupjsChannelOptions and how often it was assigned
  previous,       \* globalThis.__startupjsChannelOptions before the last init call
  axiosBaseURL,   \* axios.defaults.baseURL
  boot,           \* the last init call: its options, what it did, how it ended
  ninit           \* number of init calls made

hookVars == <<registry, dispatched>>
bootVars == <<platform, moduleOptions, channel, previous, axiosBaseURL, boot, ninit>>

rmVars == <<env, PROJECT_PATH, pathCache, hashCache, stylesCache, last, ncalls>>

----------------------------------------------------------------------------
(* Bounds *)

MaxCalls == 2

----------------------------------------------------------------------------
(* JavaScript values *)

Str(s) == [t |-> "string", v |-> s]
Undefined == [t |-> "undefined", v |-> <<>>]
Null == [t |-> "null", v |-> <<>>]

\* Boolean(x) for strings, undefined and null
Truthy(x) == x.t = "string" /\ x.v # <<>>

\* a || b
Or(a, b) == IF Truthy(a) THEN a ELSE b

\* the string conversion applied by `'' + x`
toStr(x) == IF x.t = "string" THEN x.v ELSE <<x.t>>

\* an options argument: omitted, undefined, null or an object
Options(t, pp, port, ref) ==
  [t |-> t, PROJECT_PATH |-> pp, DEV_PORT |-> port, BUILD_REFERENCE_URL |-> ref]

Omitted == Options("omitted", Undefined, Undefined, Undefined)
UndefinedOptions == Options("undefined", Undefined, Undefined, Undefined)
NullOptions == Options("null", Undefined, Undefined, Undefined)
EmptyObject == Options("object", Undefined, Undefined, Undefined)

\* the default parameter `options = {}`
DefaultOptions(options) ==
  IF options.t \in {"omitted", "undefined"} THEN EmptyObject ELSE options

Return(x) == [kind |-> "return", val |-> x]
Throw(msg) == [kind |-> "throw", val |-> Str(msg)]

TypeError == Throw(<<"TypeError: Cannot read properties of null">>)

----------------------------------------------------------------------------
(* JSON.stringify of an argument list *)

Quote(s) == <<"\"">> \o s \o <<"\"">>

\* a value as an array element or property value; undefined becomes null
JSONValue(x) == IF x.t = "string" THEN Quote(x.v) ELSE <<"null">>

RECURSIVE JoinComma(_)
JoinComma(parts) ==
  IF parts = <<>> THEN <<>>
  ELSE IF Len(parts) = 1 THEN parts[1]
  ELSE parts[1] \o <<",">> \o JoinComma(Tail(parts))

\* properties whose value is undefined are left out
JSONObject(o) ==
  LET props == << <<"PROJECT_PATH", o.PROJECT_PATH>>,
                  <<"DEV_PORT", o.DEV_PORT>>,
                  <<"BUILD_REFERENCE_URL", o.BUILD_REFERENCE_URL>> >>
      kept == SelectSeq(props, LAMBDA p : p[2].t # "undefined")
      text == [i \in 1..Len(kept) |->
                 Quote(<<kept[i][1]>>) \o <<":">> \o JSONValue(kept[i][2])]
  IN <<"{">> \o JoinComma(text) \o <<"}">>

JSONOptions(o) == IF o.t = "object" THEN JSONObject(o) ELSE <<"null">>

\* a resolver that keeps the first argument only, as memoize does by default
firstArgumentKey(type, appName, options) == Quote(type)

\* (...args) => JSON.stringify(args)
stringifyArgs(type, appName, options) ==
  <<"[">> \o Quote(type) \o <<",">> \o Quote(appName)
    \o (IF options.t = "omitted" THEN <<>> ELSE <<",">> \o JSONOptions(options))
    \o <<"]">>

----------------------------------------------------------------------------
(* The files on disk *)

DefaultBuildClientPath == <<"/build/client/">>

\* const BUILD_CLIENT_PATH = process.env.BUILD_CLIENT_PATH || '/build/client/'
BUILD_CLIENT_PATH == Or(env.BUILD_CLIENT_PATH, Str(DefaultBuildClientPath)).v

\* assets.json of each project that has one: app name -> { js: filename }
AssetsFiles ==
  (<<"/p1">> :> (<<"app">> :> <<"app", ".", "abc123", ".", "js">>
                 @@ <<"adm">> :> <<"adm", ".", "js">>))
  @@ (<<"/p2">> :> (<<"app">> :> <<"app", ".", "v2", ".", "def456", ".", "js">>))

\* the stylesheets on disk and their text
StyleFiles ==
  (<<"/p1", "/build/client/", "app", ".", "css">> :> <<"body{}">>)
  @@ (<<"/p2", "/build/client/", "app", ".", "css">> :> <<"h1{}">>)

\* path.join(PROJECT_PATH, BUILD_CLIENT_PATH, 'assets.json')
assetsMetaPath(pp) == pp \o BUILD_CLIENT_PATH \o <<"assets", ".", "json">>

\* require(assetsMetaPath): the parsed file, or a failure
requireAssets(path) ==
  IF \E p \in DOMAIN AssetsFiles : assetsMetaPath(p) = path
  THEN [ok |-> TRUE,
        meta |-> AssetsFiles[CHOOSE p \in DOMAIN AssetsFiles : assetsMetaPath(p) = path]]
  ELSE [ok |-> FALSE, meta |-> <<>>]

----------------------------------------------------------------------------
(* lodash memoize: cache.has(key) ? cache.get(key) : compute and cache.set *)

EmptyCache == [k \in {} |-> Undefined]

cacheHas(cache, key) == key \in DOMAIN cache

cacheSet(cache, key, value) ==
  [k \in DOMAIN cache \cup {key} |-> IF k = key THEN value ELSE cache[k]]

----------------------------------------------------------------------------
(* getHash *)

\* hash.match(/\.([^.]+)\.js$/): the captured group, or null
matchHash(name) ==
  LET n == Len(name)
      dots == {i \in 1..(n - 3) : name[i] = "."}
      d == CHOOSE i \in dots : \A j \in dots : j <= i
  IN IF n >= 4 /\ name[n] = "js" /\ name[n - 1] = "." /\ name[n - 2] # "."
          /\ dots # {} /\ \A i \in (d + 1)..(n - 2) : name[i] # "."
     THEN Str(SubSeq(name, d + 1, n - 2))
     ELSE Null

\* switch (type) of getHash, given the loaded manifest
hashOfType(appName, type, meta) ==
  IF type = <<"bundle">>
  THEN IF appName \notin DOMAIN meta
       THEN Throw(<<"No hash found for">>)
       ELSE LET hash == matchHash(meta[appName])
            IN IF Truthy(hash) THEN Return(hash)
               ELSE Throw(<<"No hash in bundle filename">>)
  ELSE Throw(<<"No hash exists for assets of type">>)

\* the function given to memoize; pp is PROJECT_PATH before the call
getHashBody(appName, type, options, pp) ==
  LET opt == DefaultOptions(options)
      pp2 == IF Truthy(opt.PROJECT_PATH) THEN opt.PROJECT_PATH.v ELSE pp
      file == requireAssets(assetsMetaPath(pp2))
  IN IF env.NODE_ENV # <<"production">>
     THEN [out |-> Return(Undefined), pp |-> pp, reads |-> 0]
     ELSE IF appName = <<>>
     THEN [out |-> Return(Str(<<>>)), pp |-> pp, reads |-> 0]
     ELSE IF opt.t = "null"
     THEN [out |-> TypeError, pp |-> pp, reads |-> 0]
     ELSE IF ~file.ok
     THEN [out |-> Throw(<<"Error loading assets meta file at: ">> \o assetsMetaPath(pp2)),
           pp |-> pp2, reads |-> 1]
     ELSE [out |-> hashOfType(appName, type, file.meta), pp |-> pp2, reads |-> 1]

\* memoize without a resolver: the cache key is the first argument
hashKey(appName, type, options) == appName

\* The state a call works on: w.pp is PROJECT_PATH, w.hc, w.pc and w.sc are the
\* three caches, w.hashCalls counts the calls of getHash and w.reads the
\* manifest loads made since the call began.
\* r is what the memoized function does when it runs
memoizedHash(key, r, w) ==
  IF cacheHas(w.hc, key)
  THEN [out |-> Return(w.hc[key]),
        w |-> [w EXCEPT !.hashCalls = @ + 1]]
  ELSE [out |-> r.out,
        w |-> [w EXCEPT !.hashCalls = @ + 1,
                        !.reads = @ + r.reads,
                        !.pp = r.pp,
                        !.hc = IF r.out.kind = "return"
                               THEN cacheSet(@, key, r.out.val) ELSE @]]

getHash(appName, type, options, w) ==
  memoizedHash(hashKey(appName, type, options),
               getHashBody(appName, type, options, w.pp), w)

----------------------------------------------------------------------------
(* getResourcePath *)

DefaultDevPort == <<"3010">>

\* case 'style'
styleUrl(appName) == BUILD_CLIENT_PATH \o appName \o <<".", "css">>

\* a default: that falls through to `return url`
placeholderUrl(type) == Return(Str(<<"ERROR_EMPTY">>))

\* default: of the switch
unknownResource(type) == Throw(<<"No resource found for '">> \o type \o <<"'">>)

\* case 'bundle' when NODE_ENV is production
\* url = prefix + BUILD_CLIENT_PATH + appName + postfix + '.js', h being the
\* result of getHash
hashedUrl(prefix, appName, h) ==
  IF h.out.kind = "throw" THEN h
  ELSE [out |-> Return(Str(prefix \o BUILD_CLIENT_PATH \o appName
                             \o <<".">> \o toStr(h.out.val) \o <<".", "js">>)),
        w |-> h.w]

\* case 'bundle' when NODE_ENV is production
productionBundle(appName, type, opt, w) ==
  IF opt.t = "null" THEN [out |-> TypeError, w |-> w]
  ELSE hashedUrl(Or(opt.BUILD_REFERENCE_URL, Str(<<>>)).v, appName,
                 getHash(appName, type, opt, w))

\* case 'bundle' otherwise
devBundle(appName, opt, w) ==
  IF Truthy(env.DEVSERVER_URL)
  THEN [out |-> Return(Str(env.DEVSERVER_URL.v \o BUILD_CLIENT_PATH \o appName
                             \o <<".", "js">>)),
        w |-> w]
  ELSE IF opt.t = "null" THEN [out |-> TypeError, w |-> w]
  ELSE LET port == Or(opt.DEV_PORT, Or(env.DEV_PORT, Str(DefaultDevPort))).v
       IN [out |-> Return(Str(<<"http://localhost:">> \o port \o BUILD_CLIENT_PATH
                                \o appName \o <<".", "js">>)),
           w |-> w]

\* the function given to memoize
getResourcePathBody(type, appName, options, w) ==
  LET opt == DefaultOptions(options)
  IN IF type = <<"bundle">>
     THEN IF env.NODE_ENV = <<"production">>
          THEN productionBundle(appName, type, opt, w)
          ELSE devBundle(appName, opt, w)
     ELSE IF type = <<"style">>
     THEN [out |-> Return(Str(styleUrl(appName))), w |-> w]
     ELSE [out |-> unknownResource(type), w |-> w]

\* memoize(..., (...args) => JSON.stringify(args))
\* a wrapper that never looks into its cache
recomputedPath(key, r, w) ==
  [out |-> r.out,
   w |-> IF r.out.kind = "return"
         THEN [r.w EXCEPT !.pc = cacheSet(@, key, r.out.val)] ELSE r.w]

\* r is what the memoized function does when it runs
memoizedPath(key, r, w) ==
  IF cacheHas(w.pc, key)
  THEN [out |-> Return(w.pc[key]), w |-> w]
  ELSE [out |-> r.out,
        w |-> IF r.out.kind = "return"
              THEN [r.w EXCEPT !.pc = cacheSet(@, key, r.out.val)] ELSE r.w]

\* memoize(..., (...args) => JSON.stringify(args))
getResourcePath(type, appName, options, w) ==
  memoizedPath(stringifyArgs(type, appName, options),
               getResourcePathBody(type, appName, options, w), w)

----------------------------------------------------------------------------
(* getProductionStyles *)

\* the function given to memoize
\* the stylesheet at path.join(PROJECT_PATH, styleRelPath), rel being the
\* result of getResourcePath('style', appName, options)
readStyle(pp, rel) ==
  IF rel.out.kind = "throw" THEN [out |-> rel.out, w |-> rel.w]
  ELSE IF pp \o rel.out.val.v \notin DOMAIN StyleFiles
  THEN [out |-> Return(Undefined), w |-> rel.w]
  ELSE [out |-> Return(Str(<<"<style>">> \o StyleFiles[pp \o rel.out.val.v]
                             \o <<"</style>">>)),
        w |-> rel.w]

\* PROJECT_PATH = options.PROJECT_PATH || PROJECT_PATH
stylesProjectPath(opt, pp) ==
  IF Truthy(opt.PROJECT_PATH) THEN opt.PROJECT_PATH.v ELSE pp

\* the function given to memoize
getProductionStylesBody(appName, options, w) ==
  IF DefaultOptions(options).t = "null" THEN [out |-> TypeError, w |-> w]
  ELSE readStyle(stylesProjectPath(DefaultOptions(options), w.pp),
                 getResourcePath(<<"style">>, appName, DefaultOptions(options),
                   [w EXCEPT !.pp = stylesProjectPath(DefaultOptions(options), w.pp)]))

\* r is what the memoized function does when it runs
memoizedStyles(key, r, w) ==
  IF cacheHas(w.sc, key)
  THEN [out |-> Return(w.sc[key]), w |-> w]
  ELSE [out |-> r.out,
        w |-> IF r.out.kind = "return"
              THEN [r.w EXCEPT !.sc = cacheSet(@, key, r.out.val)] ELSE r.w]

\* memoize without a resolver: the cache key is the first argument
stylesKey(appName, options) == appName

getProductionStyles(appName, options, w) ==
  memoizedStyles(stylesKey(appName, options),
                 getProductionStylesBody(appName, options, w), w)

----------------------------------------------------------------------------
(* The calls a server makes *)

Types == {<<"bundle">>, <<"style">>, <<"font">>}
AppNames == {<<>>, <<"app">>, <<"adm">>}
HashTypes == {<<"bundle">>, <<"style">>}
StyledApps == {<<"app">>, <<"adm">>}
OptionValues ==
  {Omitted, UndefinedOptions, NullOptions,
   Options("object", Str(<<"/p2">>), Undefined, Undefined),
   Options("object", Str(<<"/p3">>), Undefined, Undefined),
   Options("object", Undefined, Str(<<"4000">>), Str(<<"https://cdn">>))}

Environments ==
  {e \in [NODE_ENV : {<<"production">>, <<"development">>},
          DEVSERVER_URL : {Undefined, Str(<<"http://devserver">>)},
          DEV_PORT : {Undefined, Str(<<"5000">>)},
          BUILD_CLIENT_PATH : {Undefined}] :
     ~(Truthy(e.DEVSERVER_URL) /\ Truthy(e.DEV_PORT))}

NoCall == [fn |-> "none", type |-> <<>>, appName |-> <<>>, options |-> Omitted,
           out |-> Return(Undefined), hit |-> FALSE, hashCalls |-> 0, reads |-> 0]

World == [pp |-> PROJECT_PATH, hc |-> hashCache, pc |-> pathCache, sc |-> stylesCache,
          hashCalls |-> 0, reads |-> 0]

\* the state after a call, and the record of the call
Finish(fn, type, appName, options, r, hit) ==
  /\ PROJECT_PATH' = r.w.pp
  /\ hashCache' = r.w.hc
  /\ pathCache' = r.w.pc
  /\ stylesCache' = r.w.sc
  /\ last' = [fn |-> fn, type |-> type, appName |-> appName, options |-> options,
              out |-> r.out, hit |-> hit,
              hashCalls |-> r.w.hashCalls, reads |-> r.w.reads]
  /\ ncalls' = ncalls + 1
  /\ UNCHANGED <<env, hookVars, bootVars>>

CallGetResourcePath ==
  \E type \in Types, appName \in AppNames, options \in OptionValues :
    /\ ncalls < MaxCalls
    /\ Finish("getResourcePath", type, appName, options,
              getResourcePath(type, appName, options, World),
              cacheHas(pathCache, stringifyArgs(type, appName, options)))

CallGetHash ==
  \E type \in HashTypes, appName \in AppNames, options \in OptionValues :
    /\ ncalls < MaxCalls
    /\ Finish("getHash", type, appName, options,
              getHash(appName, type, options, World),
              cacheHas(hashCache, hashKey(appName, type, options)))

CallGetProductionStyles ==
  \E appName \in StyledApps, options \in OptionValues :
    /\ ncalls < MaxCalls
    /\ Finish("getProductionStyles", <<>>, appName, options,
              getProductionStyles(appName, options, World),
              cacheHas(stylesCache, stylesKey(appName, options)))

RMInit ==
  /\ env \in Environments
  /\ PROJECT_PATH = <<"/p1">>
  /\ pathCache = EmptyCache
  /\ hashCache = EmptyCache
  /\ stylesCache = EmptyCache
  /\ last = NoCall
  /\ ncalls = 0

\* a process that makes no resource-manager call
RMIdle ==
  /\ env = [NODE_ENV |-> <<"development">>, DEVSERVER_URL |-> Undefined,
            DEV_PORT |-> Undefined, BUILD_CLIENT_PATH |-> Undefined]
  /\ PROJECT_PATH = <<"/p1">>
  /\ pathCache = EmptyCache
  /\ hashCache = EmptyCache
  /\ stylesCache = EmptyCache
  /\ last = NoCall
  /\ ncalls = 0

RMNext ==
  \/ CallGetResourcePath
  \/ CallGetHash
  \/ CallGetProductionStyles

----------------------------------------------------------------------------
(* Plugin registry and hook dispatch *)

MaxPlugins == 2

PluginNames == {"auth", "admin", "i18n"}
ServerHooks == {"api", "beforeSession", "orm"}
HookMaps == {{}, {"api"}, {"api", "orm"}, {"beforeSession"}}

\* a dispatcher that does not look at `enabled`
ignoresEnabled(plugin) == TRUE

\* `enabled`: false means the plugin is disabled and nothing of it is activated
isEnabled(plugin) == plugin.enabled

\* createPlugin({ name, enabled, server })
createPlugin(name, enabled, server) ==
  [name |-> name, enabled |-> enabled, server |-> server]

\* the callbacks the dispatcher invokes at a lifecycle point: it walks the
\* plugins in registration order and calls the hook of each enabled plugin
\* whose server hook map defines it, passing the application handle
RECURSIVE dispatch(_, _, _)
dispatch(hook, plugins, i) ==
  IF i > Len(plugins) THEN <<>>
  ELSE (IF isEnabled(plugins[i]) /\ hook \in plugins[i].server
        THEN <<[plugin |-> plugins[i].name, index |-> i, arg |-> "expressApp"]>>
        ELSE <<>>)
       \o dispatch(hook, plugins, i + 1)

NoDispatch == [hook |-> "none", count |-> 0, callbacks |-> <<>>]

Register ==
  \E name \in PluginNames, enabled \in BOOLEAN, server \in HookMaps :
    /\ Len(registry) < MaxPlugins
    /\ \A i \in 1..Len(registry) : registry[i].name # name
    /\ registry' = Append(registry, createPlugin(name, enabled, server))
    /\ UNCHANGED <<dispatched, rmVars, bootVars>>

Dispatch ==
  \E hook \in ServerHooks :
    /\ dispatched' = [hook |-> hook, count |-> Len(registry),
                      callbacks |-> dispatch(hook, registry, 1)]
    /\ UNCHANGED <<registry, rmVars, bootVars>>

HookIdle == registry = <<>> /\ dispatched = NoDispatch

HookNext == Register \/ Dispatch

----------------------------------------------------------------------------
(* Client bootstrap: init(options) *)

MaxInits == 2
MaxDeprecatedPlugins == 2

DEFAULT_BASE_URL == Str(<<"http://127.0.0.1:3000">>)

Unset == [baseUrl |-> Undefined, forceXhrFallback |-> FALSE]

\* options.baseUrl ??= MODULE.options.baseUrl
nullishAssign(a, b) == IF a.t \in {"undefined", "null"} THEN b ELSE a

\* if (isWeb) options.baseUrl = DEFAULT_BASE_URL
webBaseUrl(url) == IF platform.isWeb THEN DEFAULT_BASE_URL ELSE url

\* if (!options.baseUrl) { ...; options.baseUrl = DEFAULT_BASE_URL }
defaultBaseUrl(url) == IF ~Truthy(url) THEN DEFAULT_BASE_URL ELSE url

\* the console warning of the same branch
warns(url) ==
  ~Truthy(url) /\ ~(platform.isWeb \/ (platform.isExpo /\ platform.isDevelopment))

\* options.baseUrl after lines 31-39
resolveBaseUrl(given) ==
  defaultBaseUrl(webBaseUrl(nullishAssign(given, moduleOptions.baseUrl)))

\* const hasExplicitBaseUrl = Boolean(options.baseUrl)
hasExplicitBaseUrl(given) == Truthy(nullishAssign(given, moduleOptions.baseUrl))

forceXhrFallback(given) ==
  /\ moduleOptions.enableXhrFallback # "false"
  /\ \/ platform.isDevelopment
     \/ platform.isExpo /\ ~platform.isWeb /\ ~hasExplicitBaseUrl(given)

\* an assignment guarded by "not yet set"
assignChannelOnce(ch, value) ==
  IF ch.writes > 0 THEN ch ELSE [value |-> value, writes |-> 1]

\* globalThis.__startupjsChannelOptions = { baseUrl, forceXhrFallback }
assignChannel(ch, value) == [value |-> value, writes |-> ch.writes + 1]

\* for (const plugin of options.plugins || []) plugin(options): the plugins
\* invoked, up to and including the first one that throws
RECURSIVE runPlugins(_, _)
runPlugins(plugins, i) ==
  IF i > Len(plugins) THEN <<>>
  ELSE <<[ev |-> "plugin", arg |-> i, with |-> "options"]>>
       \o (IF plugins[i] = "throws" THEN <<>> ELSE runPlugins(plugins, i + 1))

pluginThrew(plugins) == \E i \in 1..Len(plugins) : plugins[i] = "throws"

\* a connection made whatever the configuration
alwaysConnects == TRUE

\* if (MODULE.options.enableServer || MODULE.options.enableConnection)
shouldConnect == moduleOptions.enableServer \/ moduleOptions.enableConnection

\* what one call of init does after the base URL is resolved, in order
initSteps(plugins) ==
  <<[ev |-> "axios", arg |-> 0, with |-> "options.baseUrl"],
    [ev |-> "channelOptions", arg |-> 0, with |-> "options.baseUrl"],
    [ev |-> "commonInit", arg |-> 0, with |-> "ShareDB, options"]>>
  \o runPlugins(plugins, 1)
  \o (IF ~pluginThrew(plugins) /\ shouldConnect
      THEN <<[ev |-> "connectModel", arg |-> 0, with |-> ""]>> ELSE <<>>)

BaseUrls == {Undefined, Null, Str(<<>>), Str(<<"https://a">>), Str(<<"https://b">>)}

RECURSIVE SeqsUpTo(_, _)
SeqsUpTo(S, n) ==
  IF n = 0 THEN {<<>>}
  ELSE SeqsUpTo(S, n - 1)
       \cup {Append(q, x) : q \in {r \in SeqsUpTo(S, n - 1) : Len(r) = n - 1}, x \in S}

PluginLists == SeqsUpTo({"returns", "throws"}, MaxDeprecatedPlugins)

NoBoot == [given |-> Undefined, plugins |-> <<>>, baseUrl |-> Undefined,
           warned |-> FALSE, steps |-> <<>>, returned |-> FALSE]

\* export default (options = {}) => { ... }
InitClient ==
  \E given \in BaseUrls, plugins \in PluginLists :
    /\ ninit < MaxInits
    /\ axiosBaseURL' = resolveBaseUrl(given)
    /\ previous' = channel.value
    /\ channel' = assignChannel(channel,
                     [baseUrl |-> resolveBaseUrl(given),
                      forceXhrFallback |-> forceXhrFallback(given)])
    /\ boot' = [given |-> given, plugins |-> plugins,
                baseUrl |-> resolveBaseUrl(given),
                warned |-> warns(webBaseUrl(nullishAssign(given, moduleOptions.baseUrl))),
                steps |-> initSteps(plugins),
                returned |-> ~pluginThrew(plugins)]
    /\ ninit' = ninit + 1
    /\ UNCHANGED <<platform, moduleOptions, rmVars, hookVars>>

Platforms == [isWeb : BOOLEAN, isExpo : BOOLEAN, isDevelopment : BOOLEAN]

ModuleOptions ==
  [baseUrl : {Undefined, Str(<<>>), Str(<<"https://module">>)},
   enableXhrFallback : {"undefined", "true", "false"},
   enableServer : BOOLEAN,
   enableConnection : BOOLEAN]

BootStart ==
  /\ channel = [value |-> Unset, writes |-> 0]
  /\ previous = Unset
  /\ axiosBaseURL = Undefined
  /\ boot = NoBoot
  /\ ninit = 0

BootInit ==
  /\ platform \in Platforms
  /\ moduleOptions \in ModuleOptions
  /\ BootStart

\* a process that never calls init
BootIdle ==
  /\ platform = [isWeb |-> FALSE, isExpo |-> FALSE, isDevelopment |-> FALSE]
  /\ moduleOptions = [baseUrl |-> Undefined, enableXhrFallback |-> "undefined",
                      enableServer |-> FALSE, enableConnection |-> FALSE]
  /\ BootStart

BootNext == InitClient

----------------------------------------------------------------------------
(* Specifications *)

vars == <<rmVars, hookVars, bootVars>>

\* the resource manager
Init == RMInit /\ HookIdle /\ BootIdle
Spec == Init /\ [][RMNext]_vars

\* the plugin registry and the hook dispatcher
InitHooks == RMIdle /\ HookIdle /\ BootIdle
SpecHooks == InitHooks /\ [][HookNext]_vars

\* the client bootstrap
InitBoot == RMIdle /\ HookIdle /\ BootInit
SpecBoot == InitBoot /\ [][BootNext]_vars


----------------------------------------------------------------------------
(* Properties of the resource manager *)

Production == env.NODE_ENV = <<"production">>
LastKey == stringifyArgs(last.type, last.appName, last.options)
CalledPath == last.fn = "getResourcePath"
CalledHash == last.fn = "getHash"

\* C1: once getResourcePath has returned a URL for an argument list, the URL is
\* cached under the JSON text of that list and the entry never changes; every
\* later call whose arguments have the same JSON text returns the cached URL
\* without running the function again: no call of getHash, no manifest load, and
\* no change of the hash cache or of PROJECT_PATH.
C1_Memoized ==
  [][ /\ \A key \in DOMAIN pathCache :
            /\ key \in DOMAIN pathCache'
            /\ pathCache'[key] = pathCache[key]
            /\ (CalledPath' /\ LastKey' = key) =>
                 /\ last'.out = Return(pathCache[key])
                 /\ last'.hashCalls = 0
                 /\ last'.reads = 0
                 /\ hashCache' = hashCache
                 /\ PROJECT_PATH' = PROJECT_PATH
      /\ (CalledPath' /\ last'.out.kind = "return") =>
            /\ LastKey' \in DOMAIN pathCache'
            /\ pathCache'[LastKey'] = last'.out.val
    ]_vars

\* C1 witness: a production bundle URL served from the cache to a call passing
\* null, whose JSON text is that of an earlier call passing undefined
C1_Witness ==
  /\ CalledPath /\ last.hit /\ Production
  /\ last.type = <<"bundle">> /\ last.appName = <<"app">>
  /\ last.options = NullOptions
  /\ last.out.kind = "return" /\ last.hashCalls = 0

\* what a call returns when it is the first call of the process
FreshWorld == [pp |-> <<"/p1">>, hc |-> EmptyCache, pc |-> EmptyCache, sc |-> EmptyCache,
               hashCalls |-> 0, reads |-> 0]

FreshOutcome(c) ==
  CASE c.fn = "getResourcePath" ->
         getResourcePath(c.type, c.appName, c.options, FreshWorld).out
    [] c.fn = "getHash" -> getHash(c.appName, c.type, c.options, FreshWorld).out
    [] c.fn = "getProductionStyles" ->
         getProductionStyles(c.appName, c.options, FreshWorld).out
    [] OTHER -> c.out

\* C2: with the environment fixed, a call yields the outcome the same call
\* yields as the first call of the process, whatever calls came before it.
C2_Constant == last.out = FreshOutcome(last)

\* C3: getResourcePath with a type other than 'bundle' and 'style' throws, and
\* the cache holds no entry for such an argument list and never the placeholder.
C3_UnknownTypeThrows ==
  /\ (CalledPath /\ last.type \notin {<<"bundle">>, <<"style">>}) =>
        /\ last.out.kind = "throw"
        /\ ~last.hit
  /\ \A type \in Types \ {<<"bundle">>, <<"style">>},
        appName \in AppNames, options \in OptionValues :
        stringifyArgs(type, appName, options) \notin DOMAIN pathCache
  /\ \A key \in DOMAIN pathCache : pathCache[key] # Str(<<"ERROR_EMPTY">>)

\* C3 witness: a second call with an unknown type has thrown
C3_Witness ==
  /\ CalledPath /\ last.type = <<"font">> /\ last.out.kind = "throw"
  /\ ncalls = 2 /\ pathCache = EmptyCache /\ hashCache = EmptyCache

\* C4: in production, getHash with a non-empty appName and a type other than
\* 'bundle' throws.
C4_UnknownHashTypeThrows ==
  (CalledHash /\ Production /\ last.appName # <<>> /\ last.type # <<"bundle">>)
    => last.out.kind = "throw"

\* the manifest a getHash call names: the one under options.PROJECT_PATH if
\* given, under PROJECT_PATH otherwise
NamedManifest ==
  requireAssets(assetsMetaPath(
    IF Truthy(last.options.PROJECT_PATH) THEN last.options.PROJECT_PATH.v
    ELSE PROJECT_PATH))

\* '[name].[hash].js': ends in '.js', and a non-empty dot-free segment lies
\* between the last two dots
HasHashShape(name) ==
  /\ Len(name) >= 4
  /\ name[Len(name)] = "js" /\ name[Len(name) - 1] = "."
  /\ name[Len(name) - 2] # "." /\ name[Len(name) - 3] = "."

\* C5: getHash for a non-empty appName and type 'bundle': in production the
\* hash of the manifest's js filename for the app, an error when the manifest
\* cannot be loaded, has no entry for the app or the filename has no hash; out
\* of production undefined, and no manifest is read.
C5_HashOfManifest ==
  (CalledHash /\ last.appName # <<>> /\ last.type = <<"bundle">>
     /\ last.options.t # "null") =>
    IF ~Production THEN last.out = Return(Undefined) /\ last.reads = 0
    ELSE IF NamedManifest.ok /\ last.appName \in DOMAIN NamedManifest.meta
            /\ HasHashShape(NamedManifest.meta[last.appName])
    THEN last.out = Return(Str(<<NamedManifest.meta[last.appName]
                                   [Len(NamedManifest.meta[last.appName]) - 2]>>))
    ELSE last.out.kind = "throw"

\* C6: getResourcePath('style', appName, options) returns
\* BUILD_CLIENT_PATH + appName + '.css', with no call of getHash and no
\* manifest load, whatever the mode, the options and the environment.
C6_StylePath ==
  (CalledPath /\ last.type = <<"style">>) =>
    /\ last.out = Return(Str(BUILD_CLIENT_PATH \o last.appName \o <<".", "css">>))
    /\ last.hashCalls = 0
    /\ last.reads = 0

\* C6 witness: a style path asked in production with a BUILD_REFERENCE_URL,
\* after a style path of another app
C6_Witness ==
  /\ CalledPath /\ last.type = <<"style">> /\ last.appName = <<"adm">>
  /\ Production /\ Truthy(last.options.BUILD_REFERENCE_URL)
  /\ ncalls = 2 /\ Cardinality(DOMAIN pathCache) = 2

----------------------------------------------------------------------------
(* Properties of the hook dispatch *)

\* the plugins that were registered when the last dispatch ran
Eligible ==
  {i \in 1..dispatched.count :
     registry[i].enabled /\ dispatched.hook \in registry[i].server}

----------------------------------------------------------------------------
(* Properties of the client bootstrap *)

\* the three places init writes the base URL to hold the same value
WrittenBaseUrl(url) ==
  /\ channel.value.baseUrl = url
  /\ axiosBaseURL = url
  /\ boot.baseUrl = url

\* C8: after init returns, the base URL written is the platform default in a
\* browser; elsewhere options.baseUrl if one was given, else the global
\* configuration's baseUrl if one is set, else the platform default.
C8_Precedence ==
  boot.returned =>
    WrittenBaseUrl(IF platform.isWeb THEN DEFAULT_BASE_URL
                   ELSE IF Truthy(boot.given) THEN boot.given
                   ELSE IF Truthy(moduleOptions.baseUrl) THEN moduleOptions.baseUrl
                   ELSE DEFAULT_BASE_URL)

Steps(ev) == {k \in 1..Len(boot.steps) : boot.steps[k].ev = ev}

\* C9: init calls connectModel only if enableServer or enableConnection is set,
\* at most once and as its last step: after the channel options are written,
\* after commonInit and after every plugin of options.plugins was invoked.
C9_ConnectLast ==
  /\ ~(moduleOptions.enableServer \/ moduleOptions.enableConnection)
       => Steps("connectModel") = {}
  /\ \A c \in Steps("connectModel") :
       /\ moduleOptions.enableServer \/ moduleOptions.enableConnection
       /\ c = Len(boot.steps)
       /\ Steps("connectModel") = {c}
       /\ \E k \in Steps("channelOptions") : k < c
       /\ \E k \in Steps("commonInit") : k < c
       /\ \A i \in 1..Len(boot.plugins) :
            \E k \in Steps("plugin") :
              k < c /\ boot.steps[k].arg = i /\ boot.steps[k].with = "options"

\* C9 witness: a connection made after two deprecated plugins were invoked
C9_Witness ==
  /\ Steps("connectModel") # {}
  /\ Len(boot.plugins) = 2
  /\ ~moduleOptions.enableServer /\ moduleOptions.enableConnection

\* C10: over any sequence of init calls the channel options are assigned at
\* most once, and what the sync layer reads never changes after the first call.
C10_WrittenOnce ==
  /\ channel.writes <= 1
  /\ previous # Unset => channel.value = previous

\* C10 as amended: every init call assigns the channel options once, replacing
\* the object by the values that call resolved; the base URL read by the sync
\* layer is the one the latest call also gave to axios.
C10_WrittenPerCall ==
  /\ channel.writes = ninit
  /\ (ninit = 0) <=> (channel.value = Unset)
  /\ ninit > 0 =>
       /\ channel.value.baseUrl = boot.baseUrl
       /\ channel.value.baseUrl = axiosBaseURL
       /\ Truthy(channel.value.baseUrl)

\* C10 witness: a second init call replaced the channel options of the first
C10_Witness ==
  /\ ninit = 2 /\ channel.writes = 2
  /\ previous # Unset /\ channel.value.baseUrl # previous.baseUrl

====
